---- MODULE Spec2Model ----
(***************************************************************************)
(* State-machine model of rarest_emblem.py: the OAuth loopback handshake   *)
(* (main flow + listener thread), the sequential pipeline of main() and    *)
(* the rarity lookup with its on-disk cache.                               *)
(*                                                                         *)
(* Conventions: an optional value (Python None / a value) is the empty     *)
(* sequence or a one-element sequence.  A percentage is an integer number  *)
(* of ten-thousandths of a percent (2.5% is 25000).                        *)
(***************************************************************************)
EXTENDS Integers, Sequences, FiniteSets, TLC

VARIABLES
    pc,               \* position of the main flow in main()/get_oauth_tokens()
    failure,          \* why the run ended early ("" while it has not)
    listener,         \* "none" | "idle" | "handling" | "stopped" (serve_forever thread)
    shutdown_request, \* httpd.shutdown() has been called
    cur,              \* the request the listener is handling (optional)
    q,                \* OAuthCodeHandler.q, the queue.Queue between the threads
    code,             \* the code main took from q (optional)
    puts,             \* history: every code ever put on q, in order
    nHandled,         \* history: number of requests do_GET has answered
    nCallback,        \* history: number of /callback requests answered
    lastResp,         \* history: last response sent by do_GET (optional)
    trace,            \* history: outbound requests, cache writes, sleeps, in order
    cache,            \* files of CACHE_DIR: key -> optional bytes
    tokens,           \* result of get_oauth_tokens (optional)
    mems,             \* result of get_memberships (optional)
    primary,          \* result of pick_primary_membership (optional)
    profile,          \* result of get_profile_with_collectibles (optional)
    mf,               \* manifest index inside get_manifest (optional)
    collectible_def,  \* collectible table (optional)
    item_def,         \* item table (optional)
    owned_emblems,    \* result of emblem_item_hashes_owned
    todo,             \* hashes of owned_emblems the for loop has not visited
    rows,             \* rows built by main
    calls,            \* history: one record per fetch_lightgg_rarity call
    report,           \* lines printed by the top-N loop
    csv               \* rows written to my_emblems_rarity.csv (optional)

vars == <<pc, failure, listener, shutdown_request, cur, q, code, puts, nHandled,
          nCallback, lastResp, trace, cache, tokens, mems, primary, profile, mf,
          collectible_def, item_def, owned_emblems, todo, rows, calls, report, csv>>

oauthVars == <<listener, shutdown_request, cur, q, code, puts, nHandled, nCallback, lastResp>>
dataVars  == <<tokens, mems, primary, profile, mf, collectible_def, item_def,
               owned_emblems, todo, rows, calls, report, csv>>

None == <<>>
Some(v) == <<v>>
Val(o) == o[1]

(***************************************************************************)
(* Bounds and input domains                                                *)
(***************************************************************************)
MaxRequests == 2          \* HTTP requests that reach the listener in a run

\* A request line is a path and a query string, the query a list of key/value pairs.
Queries ==
    { <<>>,
      << <<"code", "">> >>,
      << <<"code", "a">> >>,
      << <<"state", "x">>, <<"code", "b">> >> }

Requests ==
    [path : {"/callback"}, query : Queries]
    \cup { [path |-> "/", query |-> <<>>],
           [path |-> "/favicon.ico", query |-> << <<"code", "a">> >>] }

(***************************************************************************)
(* Small helpers                                                           *)
(***************************************************************************)
CLIENT_ID == "50509"
REDIRECT_URI == "https://localhost:8721/callback"
TOP_N == 25

\* One outbound effect of the process; res is "ok" or "fail" for a request
\* (fail: requests raised, or raise_for_status did) and "" otherwise.
Eff(op, target, arg, res) == [op |-> op, target |-> target, arg |-> arg, res |-> res]
Res(resp) == IF resp = <<>> THEN "fail" ELSE "ok"

IsNet(e) == e.op \in {"GET", "POST"}
NetOf(tr) == SelectSeq(tr, IsNet)

\* parse_qs(query): the values of each key in order, blank values dropped.
parse_qs(query, key) ==
    LET keep(kv) == kv[1] = key /\ kv[2] # ""
        kvs == SelectSeq(query, keep)
    IN  [i \in 1..Len(kvs) |-> kvs[i][2]]

\* params.get("code", [""])[0]
CodeParam(query) ==
    LET vs == parse_qs(query, "code")
    IN  IF vs = <<>> THEN "" ELSE vs[1]

\* Variants of do_GET_put: without the "if code:" test, without the path test.
do_GET_put_NoCodeTest(req) ==
    IF req.path # "/callback" THEN None ELSE Some(CodeParam(req.query))
do_GET_put_AnyPath(req) ==
    IF CodeParam(req.query) # "" THEN Some(CodeParam(req.query)) ELSE None

\* What do_GET sends back and what it puts on the queue.
do_GET_status(req) == IF req.path # "/callback" THEN 404 ELSE 200
do_GET_body(req) == IF req.path # "/callback" THEN "" ELSE "You can close this tab now."
do_GET_put(req) ==
    IF req.path # "/callback" THEN None
    ELSE IF CodeParam(req.query) # "" THEN Some(CodeParam(req.query)) ELSE None

(***************************************************************************)
(* OAuth stage: main flow                                                  *)
(***************************************************************************)
\* q = queue.Queue(); the TCPServer is bound and serve_forever started.
StartListener ==
    /\ pc = "start"
    /\ q' = <<>>
    /\ listener' = "idle"
    /\ pc' = "wait_code"
    /\ UNCHANGED <<failure, shutdown_request, cur, code, puts, nHandled, nCallback,
                   lastResp, trace, cache, dataVars>>

\* Variant of QueueGet: takes the newest item.
QueueGet_Newest ==
    /\ pc = "wait_code"
    /\ q # <<>>
    /\ code' = Some(q[Len(q)])
    /\ q' = SubSeq(q, 1, Len(q) - 1)
    /\ pc' = "shutdown"
    /\ UNCHANGED <<failure, listener, shutdown_request, cur, puts, nHandled, nCallback,
                   lastResp, trace, cache, dataVars>>

\* code = q.get(): blocks while the queue is empty, takes the oldest item.
QueueGet ==
    /\ pc = "wait_code"
    /\ q # <<>>
    /\ code' = Some(Head(q))
    /\ q' = Tail(q)
    /\ pc' = "shutdown"
    /\ UNCHANGED <<failure, listener, shutdown_request, cur, puts, nHandled, nCallback,
                   lastResp, trace, cache, dataVars>>

\* httpd.shutdown(): raise the flag, then wait for serve_forever to leave its loop.
ShutdownRequest ==
    /\ pc = "shutdown"
    /\ shutdown_request' = TRUE
    /\ pc' = "wait_shutdown"
    /\ UNCHANGED <<failure, listener, cur, q, code, puts, nHandled, nCallback,
                   lastResp, trace, cache, dataVars>>

\* Variant of ShutdownReturn: does not wait for serve_forever to leave its loop.
ShutdownReturn_NoWait ==
    /\ pc = "wait_shutdown"
    /\ pc' = "token"
    /\ UNCHANGED <<failure, oauthVars, trace, cache, dataVars>>

\* shutdown() returns once serve_forever has left its loop; the with block closes.
ShutdownReturn ==
    /\ pc = "wait_shutdown"
    /\ listener = "stopped"
    /\ pc' = "token"
    /\ UNCHANGED <<failure, oauthVars, trace, cache, dataVars>>

(***************************************************************************)
(* OAuth stage: listener thread (serve_forever + OAuthCodeHandler.do_GET)  *)
(***************************************************************************)
\* Variant of ListenerAccept: the loop does not look at the shutdown flag.
ListenerAccept_IgnoresShutdown(req) ==
    /\ listener \in {"idle", "stopped"}
    /\ nHandled < MaxRequests
    /\ cur' = Some(req)
    /\ listener' = "handling"
    /\ UNCHANGED <<pc, failure, shutdown_request, q, code, puts, nHandled, nCallback,
                   lastResp, trace, cache, dataVars>>

\* serve_forever picks up the next connection unless shutdown was requested.
ListenerAccept(req) ==
    /\ listener = "idle"
    /\ ~shutdown_request
    /\ nHandled < MaxRequests
    /\ cur' = Some(req)
    /\ listener' = "handling"
    /\ UNCHANGED <<pc, failure, shutdown_request, q, code, puts, nHandled, nCallback,
                   lastResp, trace, cache, dataVars>>

\* do_GET for the accepted request.
do_GET ==
    /\ listener = "handling"
    /\ LET req == Val(cur)
           put == do_GET_put(req)
       IN  /\ lastResp' = Some([req |-> req, status |-> do_GET_status(req),
                                body |-> do_GET_body(req)])
           /\ q' = IF put = None THEN q ELSE Append(q, Val(put))
           /\ puts' = IF put = None THEN puts ELSE Append(puts, Val(put))
           /\ nCallback' = IF req.path = "/callback" THEN nCallback + 1 ELSE nCallback
    /\ nHandled' = nHandled + 1
    /\ cur' = None
    /\ listener' = "idle"
    /\ UNCHANGED <<pc, failure, shutdown_request, code, trace, cache, dataVars>>

\* serve_forever sees the flag and leaves its loop; the handler is gone.
ListenerExit ==
    /\ listener = "idle"
    /\ shutdown_request
    /\ listener' = "stopped"
    /\ lastResp' = None
    /\ UNCHANGED <<pc, failure, shutdown_request, cur, q, code, puts, nHandled, nCallback,
                   trace, cache, dataVars>>

(***************************************************************************)
(* Input domains of the pipeline: what the remote services may answer      *)
(***************************************************************************)
\* Item hashes and collectible hashes the answers are built from.
ItemHash(i) == 100 + i
H1 == ItemHash(1)
H2 == ItemHash(2)
H3 == ItemHash(3)
ItemHashes == {H1, H2, H3}
CollHash(i) == 10 + i
C1h == CollHash(1)
C2h == CollHash(2)
C3h == CollHash(3)

\* str(n) and int(s) for the decimal keys of the JSON tables.
str(n) == <<"str", n>>
int(s) == s[2]

\* json.dumps / json.loads
Dumps(v) == <<"json", v>>
Loads(b) == b[2]

\* Token endpoint answers (a 200 body); None stands for a raised network error.
TokenBodies ==
    { [access_token |-> Some("at"), refresh_token |-> Some("rt")],
      [access_token |-> None, refresh_token |-> None] }

M1 == [membershipId |-> "1", membershipType |-> 3]
M2 == [membershipId |-> "2", membershipType |-> 1]
MembershipBodies ==
    { [destinyMemberships |-> <<>>, primaryMembershipId |-> None],
      [destinyMemberships |-> <<M1, M2>>, primaryMembershipId |-> None],
      [destinyMemberships |-> <<M1, M2>>, primaryMembershipId |-> Some("2")],
      [destinyMemberships |-> <<M1, M2>>, primaryMembershipId |-> Some("9")] }

\* Collection-state records: collectible key -> stateBitmask.
ProfileNone ==
    [profileCollectibles |-> (str(C1h) :> 1),
     characterCollectibles |-> ("x" :> (str(C2h) :> 3))]
ProfileAcct ==
    [profileCollectibles |-> (str(C1h) :> 0 @@ str(C3h) :> 0),
     characterCollectibles |-> ("x" :> (str(C2h) :> 1))]
ProfileBoth ==
    [profileCollectibles |-> (str(C1h) :> 1 @@ str(C3h) :> 64),
     characterCollectibles |-> ("x" :> (str(C2h) :> 0) @@ "y" :> (str(C1h) :> 2))]
Profiles == {ProfileNone, ProfileAcct, ProfileBoth}

\* Manifest index documents: the English content paths of the two tables.
IndexV1 == [DestinyCollectibleDefinition |-> "/v1/coll.json",
            DestinyInventoryItemDefinition |-> "/v1/item.json"]
IndexV2 == [DestinyCollectibleDefinition |-> "/v2/coll.json",
            DestinyInventoryItemDefinition |-> "/v1/item.json"]
IndexV3 == [DestinyCollectibleDefinition |-> "/v3/coll.json",
            DestinyInventoryItemDefinition |-> "/v1/item.json"]
Indexes == {IndexV1, IndexV2, IndexV3}

CollV1 == (str(C1h) :> [itemHash |-> Some(H1)] @@ str(C2h) :> [itemHash |-> Some(H2)]
           @@ str(C3h) :> [itemHash |-> Some(H3)])
CollV2 == (str(C1h) :> [itemHash |-> Some(H1)] @@ str(C2h) :> [itemHash |-> Some(H1)]
           @@ str(C3h) :> [itemHash |-> None])
ItemV1 == (str(H1) :> [name |-> Some(<<"Emblem One">>), itemCategoryHashes |-> {19}]
           @@ str(H2) :> [name |-> None, itemCategoryHashes |-> {1, 19}]
           @@ str(H3) :> [name |-> Some(<<"Ship">>), itemCategoryHashes |-> {1}])

\* The text the content server returns for a path; "/v3/coll.json" is answered
\* with status 200 and an empty body.
RemoteText(path) ==
    IF path = "/v1/coll.json" THEN Dumps(CollV1)
    ELSE IF path = "/v2/coll.json" THEN Dumps(CollV2)
    ELSE IF path = "/v3/coll.json" THEN <<>>
    ELSE Dumps(ItemV1)

(***************************************************************************)
(* ByteCache                                                               *)
(***************************************************************************)
KeyIndex == <<"manifest_index.json", 0>>
KeyColl == <<"DestinyCollectibleDefinition_en.json", 0>>
KeyItem == <<"DestinyInventoryItemDefinition_en.json", 0>>
RarityKey(h) == <<"rarity_.json", h>>
CacheKeys == {KeyIndex, KeyColl, KeyItem} \cup { RarityKey(h) : h \in ItemHashes }

\* Variant of cache_put: the file is opened for appending.
cache_put_Appends(c, path, data) ==
    [c EXCEPT ![path] = IF c[path] = <<>> THEN <<data>> ELSE <<c[path][1] \o data>>]

cache_get(c, path) == c[path]
cache_put(c, path, data) == [c EXCEPT ![path] = Some(data)]
\* Variant of Truthy: the cache test never succeeds.
Truthy_Never(cached) == FALSE

\* "if cached:" is false for a missing file and for an empty one.
Truthy(cached) == cached # None /\ Val(cached) # <<>>

EmptyCache == [k \in CacheKeys |-> None]

(***************************************************************************)
(* Pipeline helpers                                                        *)
(***************************************************************************)
Abort(why) ==
    /\ pc' = "aborted"
    /\ failure' = why

\* Variant of pick_primary_membership: the override is not looked at.
pick_primary_membership_IgnoresOverride(resp) ==
    IF resp.destinyMemberships = <<>> THEN None ELSE Some(resp.destinyMemberships[1])

\* pick_primary_membership: None stands for SystemExit.
pick_primary_membership(resp) ==
    LET dms == resp.destinyMemberships
        override == resp.primaryMembershipId
        hits == IF override # None /\ Val(override) # ""
                THEN SelectSeq(dms, LAMBDA m : m.membershipId = Val(override))
                ELSE <<>>
    IN  IF dms = <<>> THEN None
        ELSE IF hits # <<>> THEN Some(hits[1])
        ELSE Some(dms[1])

\* Variant of is_unlocked: only a state of zero counts as unlocked.
is_unlocked_ZeroOnly(state) == state = 0

\* Bit 1 means NotAcquired. Unlocked if bit not set.
is_unlocked(state) == state % 2 = 0

UnlockedIn(colls) == { int(ch) : ch \in { k \in DOMAIN colls : is_unlocked(colls[k]) } }

\* Variant of emblem_item_hashes_owned: the category of the item is not tested.
emblem_item_hashes_owned_NoCategoryTest(prof, cdef, idef) ==
    LET chars == prof.characterCollectibles
        owned_collectible_hashes ==
            UnlockedIn(prof.profileCollectibles)
            \cup UNION { UnlockedIn(chars[c]) : c \in DOMAIN chars }
        mapped == { ch \in owned_collectible_hashes :
                      /\ str(ch) \in DOMAIN cdef
                      /\ cdef[str(ch)].itemHash # None
                      /\ str(Val(cdef[str(ch)].itemHash)) \in DOMAIN idef }
    IN  { Val(cdef[str(ch)].itemHash) : ch \in mapped }

\* Variant of emblem_item_hashes_owned: an item hash that the item table lacks
\* is kept instead of skipped.
emblem_item_hashes_owned_KeepsUnknownItem(prof, cdef, idef) ==
    LET EMBLEM_CATEGORY_HASH == 19
        chars == prof.characterCollectibles
        owned_collectible_hashes ==
            UnlockedIn(prof.profileCollectibles)
            \cup UNION { UnlockedIn(chars[c]) : c \in DOMAIN chars }
        mapped == { ch \in owned_collectible_hashes :
                      /\ str(ch) \in DOMAIN cdef
                      /\ cdef[str(ch)].itemHash # None
                      /\ (str(Val(cdef[str(ch)].itemHash)) \in DOMAIN idef =>
                             EMBLEM_CATEGORY_HASH
                               \in idef[str(Val(cdef[str(ch)].itemHash))].itemCategoryHashes) }
    IN  { Val(cdef[str(ch)].itemHash) : ch \in mapped }

emblem_item_hashes_owned(prof, cdef, idef) ==
    LET EMBLEM_CATEGORY_HASH == 19
        chars == prof.characterCollectibles
        owned_collectible_hashes ==
            UnlockedIn(prof.profileCollectibles)
            \cup UNION { UnlockedIn(chars[c]) : c \in DOMAIN chars }
        mapped == { ch \in owned_collectible_hashes :
                      /\ str(ch) \in DOMAIN cdef
                      /\ cdef[str(ch)].itemHash # None
                      /\ str(Val(cdef[str(ch)].itemHash)) \in DOMAIN idef
                      /\ EMBLEM_CATEGORY_HASH
                            \in idef[str(Val(cdef[str(ch)].itemHash))].itemCategoryHashes }
    IN  { Val(cdef[str(ch)].itemHash) : ch \in mapped }

(***************************************************************************)
(* light.gg pages and the two extraction strategies                        *)
(*                                                                         *)
(* A page is a list of chunks of HTML.  "label" is the text                *)
(* 'Community Rarity' inside one text node, "label_markup" the same words  *)
(* broken by markup (Community <b>Rarity</b>), "tag" any markup, "num" a   *)
(* decimal number, "pct" a literal '%', "pct_entity" the entity &#37;,     *)
(* "text" any other text.                                                  *)
(***************************************************************************)
Tk(k) == [k |-> k, v |-> 0]
Num(n) == [k |-> "num", v |-> n]

\* The raw HTML as the pattern sees it: markup is ordinary characters.
RawView(html) ==
    [i \in 1..Len(html) |->
        IF html[i].k \in {"label", "num", "pct"} THEN html[i] ELSE Tk("other")]

\* soup.get_text(" ", strip=True): markup is dropped and replaced by the
\* separator, entities are decoded.
get_text(html) ==
    [i \in 1..Len(html) |->
        IF html[i].k \in {"label", "num", "pct"} THEN html[i]
        ELSE IF html[i].k = "label_markup" THEN Tk("label")
        ELSE IF html[i].k = "pct_entity" THEN Tk("pct")
        ELSE Tk("other")]

\* RARITY_RE.search: the leftmost label from which a number immediately
\* followed by '%' is reached without crossing another '%'; group(1) as float.
RARITY_RE_search(s) ==
    LET pcts(i) == { j \in (i+1)..Len(s) : s[j].k = "pct" }
        first(i) == CHOOSE j \in pcts(i) : \A j2 \in pcts(i) : j <= j2
        ok(i) == /\ s[i].k = "label"
                 /\ pcts(i) # {}
                 /\ first(i) - 1 > i
                 /\ s[first(i) - 1].k = "num"
        starts == { i \in 1..Len(s) : ok(i) }
        i0 == CHOOSE i \in starts : \A i2 \in starts : i <= i2
    IN  IF starts = {} THEN None ELSE Some(s[first(i0) - 1].v)

PageRaw == <<Tk("tag"), Tk("label"), Tk("tag"), Num(31000), Tk("pct")>>
PageText == <<Tk("label_markup"), Tk("text"), Num(12000), Tk("pct")>>
PageMiss == <<Tk("label"), Num(12000), Tk("tag"), Tk("pct")>>
RarityPages == {PageRaw, PageText, PageMiss}

\* Variant of search_page: the visible text is searched first.
search_page_TextFirst(html) ==
    LET m1 == RARITY_RE_search(get_text(html))
    IN  IF m1 # None THEN [m |-> m1, tried |-> <<"text">>]
        ELSE [m |-> RARITY_RE_search(RawView(html)), tried |-> <<"text", "html">>]

\* m = RARITY_RE.search(html); if not m: m = RARITY_RE.search(<visible text>).
\* tried lists the searches that ran.
search_page(html) ==
    LET m1 == RARITY_RE_search(RawView(html))
    IN  IF m1 # None THEN [m |-> m1, tried |-> <<"html">>]
        ELSE [m |-> RARITY_RE_search(get_text(html)), tried |-> <<"html", "text">>]

Url(item_hash) == <<"https://www.light.gg/db/items/", item_hash, "/">>
POLITE_DELAY_MS == 500

\* Variant of fetch_lightgg_rarity: the delay is taken after every page
\* request, whatever its outcome.
fetch_lightgg_rarity_AlwaysSleeps(c, item_hash, resp) ==
    LET cache_name == RarityKey(item_hash)
        cached == cache_get(c, cache_name)
        url == Url(item_hash)
        req == Eff("GET", "lightgg", <<item_hash>>, Res(resp))
        nap == Eff("sleep", "", <<POLITE_DELAY_MS>>, "")
        found == search_page(Val(resp))
        m == found.m
    IN  IF Truthy(cached)
        THEN [pct |-> Loads(Val(cached)).percent,
              url |-> Some(Loads(Val(cached)).source),
              cache |-> c, events |-> <<>>, tried |-> <<>>]
        ELSE IF resp = None
        THEN [pct |-> None, url |-> None, cache |-> c, events |-> <<req, nap>>,
              tried |-> <<>>]
        ELSE IF m = None
        THEN [pct |-> None, url |-> None, cache |-> c, events |-> <<req, nap>>,
              tried |-> found.tried]
        ELSE [pct |-> m, url |-> Some(url),
              cache |-> cache_put(c, cache_name,
                                  Dumps([percent |-> m, source |-> url])),
              events |-> <<req, nap, Eff("cache_put", "rarity", <<item_hash>>, "")>>,
              tried |-> found.tried]

\* Variant of fetch_lightgg_rarity: a page without a percentage is remembered
\* as {"percent": null, "source": url}.
fetch_lightgg_rarity_CachesUnknown(c, item_hash, resp) ==
    LET cache_name == RarityKey(item_hash)
        cached == cache_get(c, cache_name)
        url == Url(item_hash)
        req == Eff("GET", "lightgg", <<item_hash>>, Res(resp))
        found == search_page(Val(resp))
        m == found.m
    IN  IF Truthy(cached)
        THEN [pct |-> Loads(Val(cached)).percent,
              url |-> Some(Loads(Val(cached)).source),
              cache |-> c, events |-> <<>>, tried |-> <<>>]
        ELSE IF resp = None
        THEN [pct |-> None, url |-> None, cache |-> c,
              events |-> <<req>>, tried |-> <<>>]
        ELSE IF m = None
        THEN [pct |-> None, url |-> None,
              cache |-> cache_put(c, cache_name,
                                  Dumps([percent |-> None, source |-> url])),
              events |-> <<req, Eff("cache_put", "rarity", <<item_hash>>, "")>>,
              tried |-> found.tried]
        ELSE [pct |-> m, url |-> Some(url),
              cache |-> cache_put(c, cache_name,
                                  Dumps([percent |-> m, source |-> url])),
              events |-> <<req, Eff("cache_put", "rarity", <<item_hash>>, ""),
                           Eff("sleep", "", <<POLITE_DELAY_MS>>, "")>>,
              tried |-> found.tried]

\* fetch_lightgg_rarity(item_hash) on cache c when the page request answers
\* resp (None: the request raised).  The result carries the returned pair,
\* the cache afterwards, the effects in the order the code performs them and
\* the searches it ran over the page.
fetch_lightgg_rarity(c, item_hash, resp) ==
    LET cache_name == RarityKey(item_hash)
        cached == cache_get(c, cache_name)
        url == Url(item_hash)
        req == Eff("GET", "lightgg", <<item_hash>>, Res(resp))
        found == search_page(Val(resp))
        m == found.m
    IN  IF Truthy(cached)
        THEN [pct |-> Loads(Val(cached)).percent,
              url |-> Some(Loads(Val(cached)).source),
              cache |-> c, events |-> <<>>, tried |-> <<>>]
        ELSE IF resp = None
        THEN [pct |-> None, url |-> None, cache |-> c,
              events |-> <<req>>, tried |-> <<>>]
        ELSE IF m = None
        THEN [pct |-> None, url |-> None, cache |-> c,
              events |-> <<req>>, tried |-> found.tried]
        ELSE [pct |-> m, url |-> Some(url),
              cache |-> cache_put(c, cache_name,
                                  Dumps([percent |-> m, source |-> url])),
              events |-> <<req, Eff("cache_put", "rarity", <<item_hash>>, ""),
                           Eff("sleep", "", <<POLITE_DELAY_MS>>, "")>>,
              tried |-> found.tried]

(***************************************************************************)
(* Ranking and report                                                      *)
(***************************************************************************)
UNKNOWN_KEY == 99990000     \* the 9999.0 placeholder, in ten-thousandths

\* Variant of SortKey: an unknown percent is compared as zero.
SortKey_NoneAsZero(r) ==
    IF r.community_rarity_percent = None THEN <<0, 0>>
    ELSE <<0, Val(r.community_rarity_percent)>>

\* Variant of SortKey: only the placeholder separates unknown from known.
SortKey_PlaceholderOnly(r) ==
    IF r.community_rarity_percent = None THEN <<0, UNKNOWN_KEY>>
    ELSE <<0, Val(r.community_rarity_percent)>>

\* key=lambda r: (pct is None, pct if pct is not None else 9999.0)
SortKey(r) ==
    IF r.community_rarity_percent = None THEN <<1, UNKNOWN_KEY>>
    ELSE <<0, Val(r.community_rarity_percent)>>

KeyLE(a, b) == a[1] < b[1] \/ (a[1] = b[1] /\ a[2] <= b[2])

\* list.sort is stable: a row goes after every row whose key is not greater.
InsertRow(sorted, r) ==
    LET n == Cardinality({ i \in 1..Len(sorted) : KeyLE(SortKey(sorted[i]), SortKey(r)) })
    IN  SubSeq(sorted, 1, n) \o <<r>> \o SubSeq(sorted, n + 1, Len(sorted))

RECURSIVE SortRows(_)
SortRows(rs) ==
    IF rs = <<>> THEN <<>>
    ELSE InsertRow(SortRows(SubSeq(rs, 1, Len(rs) - 1)), rs[Len(rs)])

\* f"{pct:.4f}%" or "Unknown"
pct_s(pct) ==
    IF pct = None THEN [text |-> "Unknown", whole |-> 0, frac |-> 0]
    ELSE [text |-> "%", whole |-> Val(pct) \div 10000, frac |-> Val(pct) % 10000]

PrintedLines(rs) ==
    LET n == IF Len(rs) < TOP_N THEN Len(rs) ELSE TOP_N
    IN  [i \in 1..n |-> [rank |-> i, name |-> rs[i].name,
                         pct_s |-> pct_s(rs[i].community_rarity_percent),
                         url |-> rs[i].lightgg_url]]

CsvRows(rs) ==
    [i \in 1..Len(rs) |-> [name |-> rs[i].name, itemHash |-> rs[i].itemHash,
                           community_rarity_percent |-> rs[i].community_rarity_percent,
                           lightgg_url |-> rs[i].lightgg_url]]

\* item.get("displayProperties", {}).get("name", f"Hash {h}")
NameOf(idef, h) ==
    IF str(h) \in DOMAIN idef /\ idef[str(h)].name # None
    THEN Val(idef[str(h)].name)
    ELSE <<"Hash ", h>>

(***************************************************************************)
(* main(): the sequential pipeline after the listener is gone              *)
(***************************************************************************)
\* Variant of TokenExchange: any 200 answer is accepted as the tokens.
TokenExchange_NoAccessTokenTest(resp) ==
    /\ pc = "token"
    /\ trace' = Append(trace, Eff("POST", "token",
                                  <<"authorization_code", Val(code), CLIENT_ID, REDIRECT_URI>>,
                                  Res(resp)))
    /\ IF resp = None THEN Abort("HTTPError") /\ UNCHANGED tokens
       ELSE /\ tokens' = resp
            /\ pc' = "memberships"
            /\ UNCHANGED failure
    /\ UNCHANGED <<oauthVars, cache, mems, primary, profile, mf, collectible_def, item_def,
                   owned_emblems, todo, rows, calls, report, csv>>

\* tok = post_form(token_url, data); SystemExit when access_token is missing.
TokenExchange(resp) ==
    /\ pc = "token"
    /\ trace' = Append(trace, Eff("POST", "token",
                                  <<"authorization_code", Val(code), CLIENT_ID, REDIRECT_URI>>,
                                  Res(resp)))
    /\ IF resp = None THEN Abort("HTTPError") /\ UNCHANGED tokens
       ELSE IF Val(resp).access_token = None
       THEN Abort("OAuth failed. Check client id/secret and redirect URL.")
            /\ UNCHANGED tokens
       ELSE /\ tokens' = resp
            /\ pc' = "memberships"
            /\ UNCHANGED failure
    /\ UNCHANGED <<oauthVars, cache, mems, primary, profile, mf, collectible_def, item_def,
                   owned_emblems, todo, rows, calls, report, csv>>

\* The request refresh_tokens(refresh_token) sends; nothing in main calls it.
refresh_tokens(refresh_token, res) ==
    Eff("POST", "token", <<"refresh_token", refresh_token, CLIENT_ID>>, res)

\* Variant of GetMemberships: the tokens are refreshed before the lookup.
GetMemberships_RefreshesFirst(resp) ==
    /\ pc = "memberships"
    /\ trace' = trace \o <<refresh_tokens(Val(Val(tokens).refresh_token), "ok"),
                            Eff("GET", "memberships", <<Val(Val(tokens).access_token)>>,
                                Res(resp))>>
    /\ IF resp = None THEN Abort("HTTPError") /\ UNCHANGED <<mems, primary>>
       ELSE /\ mems' = resp
            /\ IF pick_primary_membership(Val(resp)) = None
               THEN Abort("No Destiny memberships found on this account.")
                    /\ UNCHANGED primary
               ELSE /\ primary' = pick_primary_membership(Val(resp))
                    /\ pc' = "profile"
                    /\ UNCHANGED failure
    /\ UNCHANGED <<oauthVars, cache, tokens, profile, mf, collectible_def, item_def,
                   owned_emblems, todo, rows, calls, report, csv>>

\* mems = get_memberships(access); primary = pick_primary_membership(mems)
GetMemberships(resp) ==
    /\ pc = "memberships"
    /\ trace' = Append(trace, Eff("GET", "memberships", <<Val(Val(tokens).access_token)>>,
                                  Res(resp)))
    /\ IF resp = None THEN Abort("HTTPError") /\ UNCHANGED <<mems, primary>>
       ELSE /\ mems' = resp
            /\ IF pick_primary_membership(Val(resp)) = None
               THEN Abort("No Destiny memberships found on this account.")
                    /\ UNCHANGED primary
               ELSE /\ primary' = pick_primary_membership(Val(resp))
                    /\ pc' = "profile"
                    /\ UNCHANGED failure
    /\ UNCHANGED <<oauthVars, cache, tokens, profile, mf, collectible_def, item_def,
                   owned_emblems, todo, rows, calls, report, csv>>

\* profile = get_profile_with_collectibles(membership_type, membership_id, access)
GetProfile(resp) ==
    /\ pc = "profile"
    /\ trace' = Append(trace, Eff("GET", "profile",
                                  <<Val(primary).membershipType, Val(primary).membershipId,
                                    Val(Val(tokens).access_token)>>, Res(resp)))
    /\ IF resp = None THEN Abort("HTTPError") /\ UNCHANGED profile
       ELSE /\ profile' = resp
            /\ pc' = "manifest_index"
            /\ UNCHANGED failure
    /\ UNCHANGED <<oauthVars, cache, tokens, mems, primary, mf, collectible_def, item_def,
                   owned_emblems, todo, rows, calls, report, csv>>

\* The index half of get_manifest: mf from the cache, or from get_json and
\* then cached; mf is None when get_json raised.
manifest_index(c, resp) ==
    LET cached == cache_get(c, KeyIndex)
    IN  IF Truthy(cached)
        THEN [mf |-> Some(Loads(Val(cached))), cache |-> c, events |-> <<>>, raised |-> ""]
        ELSE IF resp = None
        THEN [mf |-> None, cache |-> c,
              events |-> <<Eff("GET", "manifest", <<>>, "fail")>>, raised |-> "HTTPError"]
        ELSE [mf |-> resp, cache |-> cache_put(c, KeyIndex, Dumps(Val(resp))),
              events |-> <<Eff("GET", "manifest", <<>>, "ok"),
                           Eff("cache_put", KeyIndex[1], <<>>, "")>>,
              raised |-> ""]

\* get_manifest, first half: the index document, from the cache or the network.
ManifestIndex(resp) ==
    /\ pc = "manifest_index"
    /\ LET r == manifest_index(cache, resp)
       IN  /\ trace' = trace \o r.events
           /\ cache' = r.cache
           /\ IF r.mf = None THEN Abort(r.raised) /\ UNCHANGED mf
              ELSE /\ mf' = r.mf
                   /\ pc' = "table_coll"
                   /\ UNCHANGED failure
    /\ UNCHANGED <<oauthVars, tokens, mems, primary, profile, collectible_def, item_def,
                   owned_emblems, todo, rows, calls, report, csv>>

\* Variant of fetch: a failed request is swallowed and yields an empty table.
fetch_SwallowsFailure(c, path_name, url, ok) ==
    LET cached == cache_get(c, path_name)
        txt == RemoteText(url)
        put == <<Eff("GET", "table", <<url>>, "ok"), Eff("cache_put", path_name[1], <<>>, "")>>
    IN  IF Truthy(cached)
        THEN [table |-> Some(Loads(Val(cached))), cache |-> c, events |-> <<>>, raised |-> ""]
        ELSE IF ~ok
        THEN [table |-> Some(<<>>), cache |-> c,
              events |-> <<Eff("GET", "table", <<url>>, "fail")>>, raised |-> ""]
        ELSE IF txt = <<>>
        THEN [table |-> None, cache |-> cache_put(c, path_name, txt), events |-> put,
              raised |-> "JSONDecodeError"]
        ELSE [table |-> Some(Loads(txt)), cache |-> cache_put(c, path_name, txt),
              events |-> put, raised |-> ""]

\* Variant of fetch: a cached table is used only while it is what the url serves.
fetch_ByRemotePath(c, path_name, url, ok) ==
    LET cached == cache_get(c, path_name)
        txt == RemoteText(url)
        put == <<Eff("GET", "table", <<url>>, "ok"), Eff("cache_put", path_name[1], <<>>, "")>>
    IN  IF Truthy(cached) /\ Val(cached) = txt
        THEN [table |-> Some(Loads(Val(cached))), cache |-> c, events |-> <<>>, raised |-> ""]
        ELSE IF ~ok
        THEN [table |-> None, cache |-> c,
              events |-> <<Eff("GET", "table", <<url>>, "fail")>>, raised |-> "HTTPError"]
        ELSE IF txt = <<>>
        THEN [table |-> None, cache |-> cache_put(c, path_name, txt), events |-> put,
              raised |-> "JSONDecodeError"]
        ELSE [table |-> Some(Loads(txt)), cache |-> cache_put(c, path_name, txt),
              events |-> put, raised |-> ""]

\* The inner fetch(path_name, url) of get_manifest. table is None when the
\* call raised: get(url) on a failed request, or json.loads(txt) on an empty
\* body, which is reached only after cache_put has stored the body.
fetch(c, path_name, url, ok) ==
    LET cached == cache_get(c, path_name)
        txt == RemoteText(url)
        put == <<Eff("GET", "table", <<url>>, "ok"), Eff("cache_put", path_name[1], <<>>, "")>>
    IN  IF Truthy(cached)
        THEN [table |-> Some(Loads(Val(cached))), cache |-> c, events |-> <<>>, raised |-> ""]
        ELSE IF ~ok
        THEN [table |-> None, cache |-> c,
              events |-> <<Eff("GET", "table", <<url>>, "fail")>>, raised |-> "HTTPError"]
        ELSE IF txt = <<>>
        THEN [table |-> None, cache |-> cache_put(c, path_name, txt), events |-> put,
              raised |-> "JSONDecodeError"]
        ELSE [table |-> Some(Loads(txt)), cache |-> cache_put(c, path_name, txt),
              events |-> put, raised |-> ""]

\* collectible_def = fetch("DestinyCollectibleDefinition_en.json", coll_url)
FetchCollectibleTable(ok) ==
    /\ pc = "table_coll"
    /\ LET r == fetch(cache, KeyColl, Val(mf).DestinyCollectibleDefinition, ok)
       IN  /\ trace' = trace \o r.events
           /\ cache' = r.cache
           /\ IF r.table = None THEN Abort(r.raised) /\ UNCHANGED collectible_def
              ELSE /\ collectible_def' = r.table
                   /\ pc' = "table_item"
                   /\ UNCHANGED failure
    /\ UNCHANGED <<oauthVars, tokens, mems, primary, profile, mf, item_def,
                   owned_emblems, todo, rows, calls, report, csv>>

\* item_def = fetch(...); owned_emblems = emblem_item_hashes_owned(...);
\* sys.exit(0) when nothing is owned.
FetchItemTable(ok) ==
    /\ pc = "table_item"
    /\ LET r == fetch(cache, KeyItem, Val(mf).DestinyInventoryItemDefinition, ok)
           owned == emblem_item_hashes_owned(Val(profile), Val(collectible_def), Val(r.table))
       IN  /\ trace' = trace \o r.events
           /\ cache' = r.cache
           /\ IF r.table = None
              THEN Abort(r.raised) /\ UNCHANGED <<item_def, owned_emblems, todo>>
              ELSE /\ item_def' = r.table
                   /\ owned_emblems' = owned
                   /\ todo' = owned
                   /\ IF owned = {}
                      THEN pc' = "done" /\ failure' = "No owned emblems found."
                      ELSE pc' = "rarity" /\ UNCHANGED failure
    /\ UNCHANGED <<oauthVars, tokens, mems, primary, profile, mf, collectible_def,
                   rows, calls, report, csv>>

\* History record of one fetch_lightgg_rarity call: its inputs (the hash, the
\* cache file before the call, what the page request answered) and its outputs.
CallRecord(c, h, resp, r) ==
    [h |-> h, before |-> c[RarityKey(h)], resp |-> resp,
     events |-> r.events, pct |-> r.pct, url |-> r.url,
     tried |-> r.tried, cache_before |-> c, cache_after |-> r.cache]

\* One iteration of "for h in owned_emblems": set order is not specified.
RarityStep(h, resp) ==
    /\ pc = "rarity"
    /\ h \in todo
    /\ LET r == fetch_lightgg_rarity(cache, h, resp)
       IN  /\ cache' = r.cache
           /\ trace' = trace \o r.events
           /\ calls' = Append(calls, CallRecord(cache, h, resp, r))
           /\ rows' = Append(rows, [itemHash |-> h, name |-> NameOf(Val(item_def), h),
                                    community_rarity_percent |-> r.pct,
                                    lightgg_url |-> r.url])
    /\ todo' = todo \ {h}
    /\ pc' = IF todo = {h} THEN "report" ELSE "rarity"
    /\ UNCHANGED <<failure, oauthVars, tokens, mems, primary, profile, mf, collectible_def,
                   item_def, owned_emblems, report, csv>>

\* rows.sort(...), the top-N print loop and the CSV export.
Report ==
    /\ pc = "report"
    /\ rows' = SortRows(rows)
    /\ report' = PrintedLines(rows')
    /\ csv' = Some(CsvRows(rows'))
    /\ pc' = "done"
    /\ UNCHANGED <<failure, oauthVars, trace, cache, tokens, mems, primary, profile, mf,
                   collectible_def, item_def, owned_emblems, todo, calls>>

(***************************************************************************)
(* Specification                                                           *)
(***************************************************************************)
\* The JSON number or null of "percent" is kept as an optional value.
CachedRarity(p, h) == Dumps([percent |-> Some(p), source |-> Url(h)])

\* Cache directories earlier runs can have left behind.
InitCaches ==
    { EmptyCache,
      [EmptyCache EXCEPT ![RarityKey(H1)] = Some(CachedRarity(25000, H1))],
      [EmptyCache EXCEPT ![KeyIndex] = Some(Dumps(IndexV1)),
                         ![KeyColl] = Some(Dumps(CollV1)),
                         ![KeyItem] = Some(Dumps(ItemV1)),
                         ![RarityKey(H2)] = Some(CachedRarity(7000, H2))] }

Init ==
    /\ pc = "start"
    /\ failure = ""
    /\ listener = "none"
    /\ shutdown_request = FALSE
    /\ cur = None
    /\ q = <<>>
    /\ code = None
    /\ puts = <<>>
    /\ nHandled = 0
    /\ nCallback = 0
    /\ lastResp = None
    /\ trace = <<>>
    /\ cache \in InitCaches
    /\ tokens = None
    /\ mems = None
    /\ primary = None
    /\ profile = None
    /\ mf = None
    /\ collectible_def = None
    /\ item_def = None
    /\ owned_emblems = {}
    /\ todo = {}
    /\ rows = <<>>
    /\ calls = <<>>
    /\ report = <<>>
    /\ csv = None

Opt(S) == {None} \cup { Some(x) : x \in S }

MainNext ==
    \/ StartListener
    \/ QueueGet
    \/ ShutdownRequest
    \/ ShutdownReturn
    \/ \E resp \in Opt(TokenBodies) : TokenExchange(resp)
    \/ \E resp \in Opt(MembershipBodies) : GetMemberships(resp)
    \/ \E resp \in Opt(Profiles) : GetProfile(resp)
    \/ \E resp \in Opt(Indexes) : ManifestIndex(resp)
    \/ \E ok \in BOOLEAN : FetchCollectibleTable(ok)
    \/ \E ok \in BOOLEAN : FetchItemTable(ok)
    \/ \E h \in ItemHashes, resp \in Opt(RarityPages) : RarityStep(h, resp)
    \/ Report

ListenerNext ==
    \/ \E req \in Requests : ListenerAccept(req)
    \/ do_GET
    \/ ListenerExit

Next == MainNext \/ ListenerNext

Spec == Init /\ [][Next]_vars

TypeOK ==
    /\ pc \in {"start", "wait_code", "shutdown", "wait_shutdown", "token", "memberships",
               "profile", "manifest_index", "table_coll", "table_item", "rarity",
               "report", "done", "aborted"}
    /\ listener \in {"none", "idle", "handling", "stopped"}
    /\ nHandled \in 0..MaxRequests
    /\ Len(q) <= MaxRequests

(***************************************************************************)
(* Second specification: fetch_lightgg_rarity called repeatedly on one     *)
(* cache directory, for any hash and any answer of the external site.      *)
(***************************************************************************)
MaxCalls == 3

CallFetchRarity(h, resp) ==
    /\ pc = "calls"
    /\ Len(calls) < MaxCalls
    /\ LET r == fetch_lightgg_rarity(cache, h, resp)
       IN  /\ cache' = r.cache
           /\ trace' = trace \o r.events
           /\ calls' = Append(calls, CallRecord(cache, h, resp, r))
    /\ UNCHANGED <<pc, failure, oauthVars, tokens, mems, primary, profile, mf, collectible_def,
                   item_def, owned_emblems, todo, rows, report, csv>>

InitRarity ==
    /\ pc = "calls"
    /\ failure = ""
    /\ listener = "none"
    /\ shutdown_request = FALSE
    /\ cur = None
    /\ q = <<>>
    /\ code = None
    /\ puts = <<>>
    /\ nHandled = 0
    /\ nCallback = 0
    /\ lastResp = None
    /\ trace = <<>>
    /\ cache \in InitCaches
    /\ tokens = None
    /\ mems = None
    /\ primary = None
    /\ profile = None
    /\ mf = None
    /\ collectible_def = None
    /\ item_def = None
    /\ owned_emblems = {}
    /\ todo = {}
    /\ rows = <<>>
    /\ calls = <<>>
    /\ report = <<>>
    /\ csv = None

NextRarity == \E h \in ItemHashes, resp \in Opt(RarityPages) : CallFetchRarity(h, resp)

SpecRarity == InitRarity /\ [][NextRarity]_vars

(***************************************************************************)
(* Properties                                                              *)
(***************************************************************************)
IsTokenPost(e) == e.op = "POST" /\ e.target = "token"
TokenPosts == SelectSeq(trace, IsTokenPost)
Blocked == pc \in {"start", "wait_code"}

\* C1: in get_oauth_tokens the main flow stays blocked until the listener has
\* put a code on the queue; the shutdown is requested only after the code was
\* received; the token POST is sent only once the listener has stopped, and it
\* carries the code taken from the queue, which is the first code put.
C1_HandshakeOrder ==
    /\ Blocked => (code = None /\ ~shutdown_request)
    /\ ~Blocked => (puts # <<>> /\ code = Some(puts[1]))
    /\ shutdown_request => code # None
    /\ listener = "stopped" => shutdown_request
    /\ TokenPosts # <<>> =>
          /\ listener = "stopped"
          /\ cur = None
          /\ code # None
          /\ TokenPosts[1].arg[2] = Val(code)
          /\ TokenPosts[1].arg[2] = puts[1]

\* A token POST was sent in a run where two different codes were put.
C1_Witness ==
    /\ TokenPosts # <<>>
    /\ Len(puts) >= 2
    /\ puts[1] # puts[2]

\* C2 as stated: the listener handles exactly one request before teardown.
C2_ExactlyOneRequest ==
    /\ nHandled <= 1
    /\ listener = "stopped" => nHandled = 1

\* C2 amended: the listener serves requests until it is shut down. It is torn
\* down only after it has answered at least one /callback request that put a
\* code; it may have answered further requests before that; after it has
\* stopped it stays stopped and answers nothing more.
C2_ServesUntilShutdown ==
    /\ [](listener = "stopped" => (nHandled >= 1 /\ nCallback >= 1 /\ puts # <<>>))
    /\ [][listener = "stopped" => (listener' = "stopped" /\ nHandled' = nHandled
                                    /\ puts' = puts)]_vars

\* The listener has stopped after answering more than one request.
C2_Witness == listener = "stopped" /\ nHandled >= 2

AckBody == "You can close this tab now."
HandlesCallback == listener = "handling" /\ listener' = "idle" /\ Val(cur).path = "/callback"
HasCode(query) == \E i \in 1..Len(query) : query[i][1] = "code" /\ query[i][2] # ""
FirstCode(query) ==
    LET i == CHOOSE i \in 1..Len(query) :
                 /\ query[i][1] = "code" /\ query[i][2] # ""
                 /\ \A j \in 1..(i-1) : ~(query[j][1] = "code" /\ query[j][2] # "")
    IN  query[i][2]

\* C3 as stated: every /callback request is answered 200 with the
\* acknowledgement and puts its code on the queue, whatever its query string.
C3_EveryCallbackHandsOver ==
    [][HandlesCallback =>
          /\ Val(lastResp').status = 200
          /\ Val(lastResp').body = AckBody
          /\ Len(puts') = Len(puts) + 1
          /\ Len(q') = Len(q) + 1]_vars

\* C3 amended: every /callback request is answered 200 with the
\* acknowledgement; its code is put on the queue exactly when the query has a
\* non-empty code parameter (the first such value is put); a /callback request
\* without one puts nothing, so a main flow that is blocked stays blocked.
C3_CallbackHandsOverNonEmptyCode ==
    [][HandlesCallback =>
          /\ Val(lastResp').status = 200
          /\ Val(lastResp').body = AckBody
          /\ IF HasCode(Val(cur).query)
             THEN /\ q' = Append(q, FirstCode(Val(cur).query))
                  /\ puts' = Append(puts, FirstCode(Val(cur).query))
             ELSE /\ q' = q /\ puts' = puts
                  /\ (pc = "wait_code" /\ q = <<>> => pc' = "wait_code" /\ q' = <<>>)]_vars

\* A /callback request without a code was acknowledged and main is still blocked.
C3_Witness ==
    /\ lastResp # None
    /\ Val(lastResp).req.path = "/callback"
    /\ ~HasCode(Val(lastResp).req.query)
    /\ Val(lastResp).status = 200
    /\ pc = "wait_code"
    /\ q = <<>>

\* C4 as stated: the queue never holds more than one code and at most one
\* code is ever put on it.
C4_CapacityOne == Len(q) <= 1 /\ Len(puts) <= 1

\* C4 amended: the queue is an unbounded FIFO; each answered /callback request
\* with a code adds one. The main flow takes exactly one code from it, the
\* first one put; codes put later stay on the queue and are never taken.
C4_OneCodeTaken ==
    /\ code = None => q = puts
    /\ code # None => puts = <<Val(code)>> \o q

\* The main flow has taken its code and another code is left on the queue.
C4_Witness == code # None /\ q # <<>>

\* C5: a request on a path other than /callback is answered 404 and puts
\* nothing: while only such requests have been answered the queue is empty,
\* the main flow is blocked and no token exchange has been sent.
C5_OtherPathsIgnored ==
    /\ (lastResp # None /\ Val(lastResp).req.path # "/callback") =>
           Val(lastResp).status = 404
    /\ nCallback = 0 => (q = <<>> /\ puts = <<>> /\ Blocked /\ TokenPosts = <<>>)

\* Two requests on other paths, the last one with a code in its query, were answered.
C5_Witness ==
    /\ nCallback = 0
    /\ nHandled >= 2
    /\ lastResp # None
    /\ HasCode(Val(lastResp).req.query)

OAuthFailed == "OAuth failed. Check client id/secret and redirect URL."
IsCachePut(e) == e.op = "cache_put"
PastToken == pc \in {"memberships", "profile", "manifest_index", "table_coll",
                     "table_item", "rarity", "report", "done"}

\* C6: when the token answer has no access token the run aborts with the
\* OAuth failure: the token POST is the only request ever sent, nothing is
\* written to the cache, no rarity call is made and no report or export is
\* produced; the main flow goes past the exchange only with an access token.
C6_AuthFailureAborts ==
    /\ PastToken => (tokens # None /\ Val(tokens).access_token # None)
    /\ failure = OAuthFailed =>
          /\ pc = "aborted"
          /\ tokens = None
          /\ Len(NetOf(trace)) = 1
          /\ IsTokenPost(trace[Len(trace)])
          /\ trace[Len(trace)].res = "ok"
          /\ SelectSeq(trace, IsCachePut) = <<>>
          /\ cache \in InitCaches
          /\ calls = <<>> /\ rows = <<>> /\ report = <<>> /\ csv = None

\* The run has ended with the OAuth failure.
C6_Witness == failure = OAuthFailed /\ pc = "aborted" /\ Len(puts) >= 1

\* A request of the pipeline other than a rarity page request failed.
HardFailureAt(i) ==
    /\ IsNet(trace[i])
    /\ trace[i].res = "fail"
    /\ trace[i].target # "lightgg"

StageOf(e) ==
    IF e.target = "token" THEN 1
    ELSE IF e.target = "memberships" THEN 2
    ELSE IF e.target = "profile" THEN 3
    ELSE IF e.target = "manifest" THEN 4
    ELSE IF e.arg[1] \in {"/v1/coll.json", "/v2/coll.json"} THEN 5
    ELSE 6

StageResults == <<tokens, primary, profile, mf, collectible_def, item_def>>

\* C7: a failed token, membership, profile, manifest index or table request
\* aborts the run at that stage: it is the last thing the process does (no
\* retry, no later request, no cache write), the result of that stage and of
\* every later stage is never produced, no rarity call is made and nothing
\* is reported or exported.
C7_HardFailureAborts ==
    \A i \in 1..Len(trace) :
        HardFailureAt(i) =>
            /\ i = Len(trace)
            /\ pc = "aborted"
            /\ failure = "HTTPError"
            /\ \A k \in StageOf(trace[i])..6 : StageResults[k] = None
            /\ \A j \in 1..(i-1) :
                   ~(trace[j].target = trace[i].target /\ trace[j].arg = trace[i].arg)
            /\ \A j \in 1..Len(trace) : trace[j].target # "lightgg"
            /\ calls = <<>> /\ rows = <<>> /\ report = <<>> /\ csv = None

\* The item table request failed after the collectible table was loaded.
C7_Witness ==
    /\ trace # <<>>
    /\ HardFailureAt(Len(trace))
    /\ StageOf(trace[Len(trace)]) = 6
    /\ collectible_def # None

\* The main flow keeps running while it can take a step.
FairSpec == Spec /\ WF_vars(MainNext)

NoEntry(c) == c.before = None
NoPercentage(c) == c.resp = None \/ Val(c.resp) = PageMiss
Degraded(c) == NoEntry(c) /\ NoPercentage(c)

RowsRanked ==
    LET out == Val(csv)
    IN  /\ Len(out) = Cardinality(owned_emblems)
        /\ \A h \in owned_emblems :
               Cardinality({ i \in 1..Len(out) : out[i].itemHash = h }) = 1
        /\ Len(report) = (IF Len(out) < TOP_N THEN Len(out) ELSE TOP_N)
        /\ \A n \in 1..Len(calls) : \A i \in 1..Len(out) :
               (Degraded(calls[n]) /\ out[i].itemHash = calls[n].h) =>
                   /\ out[i].community_rarity_percent = None
                   /\ out[i].lightgg_url = None
                   /\ (i <= Len(report) => report[i].pct_s.text = "Unknown")
                   /\ \A j \in 1..Len(out) :
                          out[j].community_rarity_percent # None => j < i

\* C8: once every non-rarity call has succeeded and something is owned, the
\* run never aborts and reaches the report and the export, whatever the rarity
\* outcomes are; every owned emblem is in exactly one row; an item whose page
\* request failed or whose page has no percentage has an unknown percent,
\* printed as "Unknown", and comes after every row with a known percent.
C8_RarityDegradesOneField ==
    /\ [](owned_emblems # {} => (pc \in {"rarity", "report", "done"} /\ failure = ""))
    /\ []((pc = "done" /\ owned_emblems # {}) => (csv # None /\ RowsRanked))
    /\ ((pc = "rarity") ~> (pc = "done" /\ csv # None))

\* Two emblems: the one visited first had no entry and its request failed, the
\* other was served from the cache with 2.5; the report lists the cached one first.
C8_Witness ==
    /\ pc = "done"
    /\ Len(calls) = 2
    /\ calls[1].h = H2 /\ NoEntry(calls[1]) /\ calls[1].resp = None
    /\ calls[2].h = H1 /\ calls[2].pct = Some(25000)
    /\ rows[1].itemHash = H1
    /\ rows[2].itemHash = H2
    /\ report[2].pct_s.text = "Unknown"

IsSleep(e) == e.op = "sleep"
Matched(c) == NoEntry(c) /\ c.resp # None /\ Val(c.resp) \in {PageRaw, PageText}

\* C9: a call sleeps only when it had no cache entry and its page gave a
\* percentage: then it performs the page request, the cache write and one
\* delay of 0.5 s, in that order, the delay last; a call served from the cache
\* and a call whose request failed or whose page has no percentage never sleeps.
C9_PoliteDelay ==
    \A n \in 1..Len(calls) :
        LET c == calls[n]
        IN  IF Matched(c)
            THEN /\ Len(c.events) = 3
                 /\ c.events[1].op = "GET" /\ c.events[1].res = "ok"
                 /\ c.events[2].op = "cache_put"
                 /\ c.events[3].op = "sleep" /\ c.events[3].arg = <<500>>
                 /\ c.pct # None
            ELSE /\ SelectSeq(c.events, IsSleep) = <<>>
                 /\ SelectSeq(c.events, IsCachePut) = <<>>

\* A call served from the cache, a failed call and a call that matched (by the
\* fallback) have all happened.
C9_Witness ==
    /\ Len(calls) >= 3
    /\ ~NoEntry(calls[1])
    /\ Degraded(calls[2])
    /\ Matched(calls[3]) /\ Val(calls[3].resp) = PageText

Stored(bytes) == bytes[2]

\* C10: a call for a hash whose rarity_<hash> entry exists sends no request and
\* returns the stored percent and url; so once a call for h has returned a
\* known percent, every later call for h returns the same pair without a
\* request, whatever the page now says; a known result carries the url of h.
C10_ServedFromCache ==
    \A n \in 1..Len(calls) :
        LET c == calls[n]
        IN  /\ ~NoEntry(c) =>
                  /\ c.events = <<>>
                  /\ c.pct = Stored(Val(c.before)).percent
                  /\ c.url = Some(Stored(Val(c.before)).source)
            /\ c.pct # None => c.url = Some(Url(c.h))
            /\ \A i \in 1..(n-1) :
                   (calls[i].h = c.h /\ calls[i].pct # None) =>
                       /\ c.pct = calls[i].pct
                       /\ c.url = calls[i].url
                       /\ c.events = <<>>

\* A hash was fetched from a page giving 3.1, then asked again while the page
\* gives 1.2: the second call still returns 3.1.
C10_Witness ==
    /\ Len(calls) >= 2
    /\ calls[1].h = calls[2].h
    /\ NoEntry(calls[1])
    /\ calls[1].resp = Some(PageRaw)
    /\ calls[2].resp = Some(PageText)
    /\ calls[2].pct = Some(31000)

(***************************************************************************)
(* Third specification: cache_put and cache_get called in any order on a   *)
(* fresh cache directory.                                                  *)
(***************************************************************************)
MaxCacheOps == 4

\* File names and file contents the operations are tried with.
OpKeys == {KeyIndex, RarityKey(H1)}
OpBytes == {<<>>, <<"x">>, <<"y">>}

CachePut(path, data) ==
    /\ pc = "cache_ops"
    /\ Len(trace) < MaxCacheOps
    /\ cache' = cache_put(cache, path, data)
    /\ trace' = Append(trace, Eff("cache_put", path, <<Some(data)>>, ""))
    /\ UNCHANGED <<pc, failure, oauthVars, dataVars>>

CacheGet(path) ==
    /\ pc = "cache_ops"
    /\ Len(trace) < MaxCacheOps
    /\ trace' = Append(trace, Eff("cache_get", path, <<cache_get(cache, path)>>, ""))
    /\ UNCHANGED <<pc, failure, oauthVars, cache, dataVars>>

InitCacheOps ==
    /\ pc = "cache_ops"
    /\ failure = ""
    /\ listener = "none"
    /\ shutdown_request = FALSE
    /\ cur = None
    /\ q = <<>>
    /\ code = None
    /\ puts = <<>>
    /\ nHandled = 0
    /\ nCallback = 0
    /\ lastResp = None
    /\ trace = <<>>
    /\ cache = EmptyCache
    /\ tokens = None
    /\ mems = None
    /\ primary = None
    /\ profile = None
    /\ mf = None
    /\ collectible_def = None
    /\ item_def = None
    /\ owned_emblems = {}
    /\ todo = {}
    /\ rows = <<>>
    /\ calls = <<>>
    /\ report = <<>>
    /\ csv = None

NextCacheOps ==
    \/ \E path \in OpKeys, data \in OpBytes : CachePut(path, data)
    \/ \E path \in OpKeys : CacheGet(path)

SpecCacheOps == InitCacheOps /\ [][NextCacheOps]_vars

PutsBefore(n, path) ==
    { m \in 1..(n-1) : trace[m].op = "cache_put" /\ trace[m].target = path }
LastOf(S) == CHOOSE m \in S : \A m2 \in S : m2 <= m
Written(n, path) ==
    IF PutsBefore(n, path) = {} THEN None
    ELSE trace[LastOf(PutsBefore(n, path))].arg[1]

\* C11: after any sequence of puts, a get of a file name returns exactly the
\* bytes of the most recent put under that name (an empty content included)
\* and absent when nothing was ever put under it; a put under one name leaves
\* what get returns for every other name unchanged.
C11_CacheRoundTrip ==
    /\ \A n \in 1..Len(trace) :
           trace[n].op = "cache_get" => trace[n].arg[1] = Written(n, trace[n].target)
    /\ \A path \in CacheKeys : cache_get(cache, path) = Written(Len(trace) + 1, path)

\* A name was written twice with different contents, another name in between,
\* and then read.
C11_Witness ==
    /\ Len(trace) >= 4
    /\ trace[1].op = "cache_put" /\ trace[1].target = KeyIndex /\ trace[1].arg[1] = Some(<<"x">>)
    /\ trace[2].op = "cache_put" /\ trace[2].target = RarityKey(H1)
    /\ trace[3].op = "cache_put" /\ trace[3].target = KeyIndex /\ trace[3].arg[1] = Some(<<"y">>)
    /\ trace[4].op = "cache_get" /\ trace[4].target = KeyIndex

(***************************************************************************)
(* Fourth specification: emblem_item_hashes_owned applied to a profile and *)
(* a pair of catalogs drawn from bounded sets.                             *)
(***************************************************************************)
\* The dict with the keys of f whose value is present.
Present(f) == [k \in { k \in DOMAIN f : f[k] # None } |-> Val(f[k])]
Dict2(k1, o1, k2, o2) == Present(k1 :> o1 @@ k2 :> o2)

ResolveProfiles ==
    { [profileCollectibles |-> Dict2(str(C1h), a1, str(C2h), a2),
       characterCollectibles |->
           ("x" :> Dict2(str(C1h), x1, str(C2h), x2)
            @@ "y" :> Dict2(str(C1h), None, str(C2h), y2))] :
        a1 \in Opt({0, 1, 2, 3}), a2 \in Opt({0, 1}),
        x1 \in Opt({0, 3}), x2 \in Opt({0, 1}), y2 \in Opt({0}) }

ResolveCollectibleDefs ==
    { Dict2(str(C1h), e1, str(C2h), e2) :
        e1 \in Opt({[itemHash |-> None], [itemHash |-> Some(H1)]}),
        e2 \in Opt({[itemHash |-> None], [itemHash |-> Some(H1)], [itemHash |-> Some(H2)]}) }

ResolveItemDefs ==
    { Dict2(str(H1), i1, str(H2), i2) :
        i1 \in Opt({[name |-> None, itemCategoryHashes |-> {19}],
                    [name |-> None, itemCategoryHashes |-> {1}]}),
        i2 \in Opt({[name |-> None, itemCategoryHashes |-> {1, 19}],
                    [name |-> None, itemCategoryHashes |-> {}]}) }

Resolve ==
    /\ pc = "resolve"
    /\ owned_emblems' = emblem_item_hashes_owned(Val(profile), Val(collectible_def),
                                                 Val(item_def))
    /\ pc' = "resolved"
    /\ UNCHANGED <<failure, oauthVars, trace, cache, tokens, mems, primary, profile, mf,
                   collectible_def, item_def, todo, rows, calls, report, csv>>

InitResolve ==
    /\ pc = "resolve"
    /\ failure = ""
    /\ listener = "none"
    /\ shutdown_request = FALSE
    /\ cur = None
    /\ q = <<>>
    /\ code = None
    /\ puts = <<>>
    /\ nHandled = 0
    /\ nCallback = 0
    /\ lastResp = None
    /\ trace = <<>>
    /\ cache = EmptyCache
    /\ tokens = None
    /\ mems = None
    /\ primary = None
    /\ profile \in { Some(p) : p \in ResolveProfiles }
    /\ mf = None
    /\ collectible_def \in { Some(t) : t \in ResolveCollectibleDefs }
    /\ item_def \in { Some(t) : t \in ResolveItemDefs }
    /\ owned_emblems = {}
    /\ todo = {}
    /\ rows = <<>>
    /\ calls = <<>>
    /\ report = <<>>
    /\ csv = None

NextResolve == Resolve

SpecResolve == InitResolve /\ [][NextResolve]_vars

\* The scopes of a profile: the account block and every character block.
Scopes(prof) ==
    {prof.profileCollectibles}
    \cup { prof.characterCollectibles[c] : c \in DOMAIN prof.characterCollectibles }

\* Collectible hash ch has a record with bit 0 clear in some scope.
UnlockedSomewhere(prof, ch) ==
    \E sc \in Scopes(prof) : str(ch) \in DOMAIN sc /\ (sc[str(ch)] % 2) # 1

CollHashes == {C1h, C2h, C3h}
IsEmblem(idef, i) == str(i) \in DOMAIN idef /\ 19 \in idef[str(i)].itemCategoryHashes
MapsTo(cdef, ch, i) == str(ch) \in DOMAIN cdef /\ cdef[str(ch)].itemHash = Some(i)

\* C12: the result is exactly the set of item hashes i such that some
\* collectible hash is unlocked (bit 0 clear, other bits ignored) in the account
\* scope or in a character scope, the collectible table maps it to i, the item
\* table has i and the categories of i contain 19.
C12_OwnedExactly ==
    pc = "resolved" =>
        owned_emblems =
            { i \in ItemHashes :
                \E ch \in CollHashes :
                    /\ UnlockedSomewhere(Val(profile), ch)
                    /\ MapsTo(Val(collectible_def), ch, i)
                    /\ IsEmblem(Val(item_def), i) }

\* Two collectibles lead to the same emblem, one unlocked at account scope with
\* other bits set, the other locked at account scope and unlocked for a character.
C12_Witness ==
    /\ pc = "resolved"
    /\ owned_emblems = {H1}
    /\ Val(profile).profileCollectibles = (str(C1h) :> 2 @@ str(C2h) :> 1)
    /\ Val(profile).characterCollectibles["x"] = (str(C1h) :> 3 @@ str(C2h) :> 0)
    /\ MapsTo(Val(collectible_def), C1h, H1)
    /\ MapsTo(Val(collectible_def), C2h, H1)

\* The full run together with the resolver on its bounded inputs.
SpecRunAndResolve == (Init \/ InitResolve) /\ [][Next \/ NextResolve]_vars

\* C13: an item whose categories lack 19 is never in the result of
\* emblem_item_hashes_owned, whatever the unlock state of its collectible, and
\* is therefore never looked up on light.gg nor put in a row of the report or
\* of the export.
C13_NoNonEmblem ==
    item_def # None =>
        /\ \A i \in owned_emblems : IsEmblem(Val(item_def), i)
        /\ \A n \in 1..Len(calls) : IsEmblem(Val(item_def), calls[n].h)
        /\ \A n \in 1..Len(trace) :
               trace[n].target = "lightgg" => IsEmblem(Val(item_def), trace[n].arg[1])
        /\ \A n \in 1..Len(rows) : IsEmblem(Val(item_def), rows[n].itemHash)
        /\ csv # None =>
               \A n \in 1..Len(Val(csv)) : IsEmblem(Val(item_def), Val(csv)[n].itemHash)

\* A run was reported in which the collectible of a ship was unlocked.
C13_Witness ==
    /\ pc = "done"
    /\ csv # None
    /\ UnlockedSomewhere(Val(profile), C3h)
    /\ MapsTo(Val(collectible_def), C3h, H3)
    /\ str(H3) \in DOMAIN Val(item_def)
    /\ ~IsEmblem(Val(item_def), H3)

\* The profile without any record of collectible hash ch.
Without(d, ch) == [k \in DOMAIN d \ {str(ch)} |-> d[k]]
WithoutHash(prof, ch) ==
    [profileCollectibles |-> Without(prof.profileCollectibles, ch),
     characterCollectibles |->
         [c \in DOMAIN prof.characterCollectibles |->
             Without(prof.characterCollectibles[c], ch)]]

\* The hash has no collectible entry, an entry without item, or an item the
\* item table does not have.
Dangling(cdef, idef, ch) ==
    \/ str(ch) \notin DOMAIN cdef
    \/ cdef[str(ch)].itemHash = None
    \/ str(Val(cdef[str(ch)].itemHash)) \notin DOMAIN idef

\* C14: an unlocked collectible hash without collectible entry, with an entry
\* that maps to no item, or mapped to an item the item table lacks, is
\* skipped: the result is the result for the same profile without that hash.
C14_DanglingSkipped ==
    pc = "resolved" =>
        \A ch \in CollHashes :
            (UnlockedSomewhere(Val(profile), ch)
             /\ Dangling(Val(collectible_def), Val(item_def), ch)) =>
                owned_emblems =
                    emblem_item_hashes_owned(WithoutHash(Val(profile), ch),
                                             Val(collectible_def), Val(item_def))

\* One unlocked hash maps to an item the item table lacks, the other unlocked
\* hash resolves to an emblem, which is the whole result.
C14_Witness ==
    /\ pc = "resolved"
    /\ owned_emblems = {H1}
    /\ UnlockedSomewhere(Val(profile), C1h)
    /\ UnlockedSomewhere(Val(profile), C2h)
    /\ MapsTo(Val(collectible_def), C1h, H1)
    /\ MapsTo(Val(collectible_def), C2h, H2)
    /\ str(H2) \notin DOMAIN Val(item_def)

(***************************************************************************)
(* Fifth specification: the sort, print and export of main applied to rows *)
(* with percents drawn from a bounded set.                                 *)
(***************************************************************************)
MaxRows == 5

\* 1.2, 3.3, 5.0 and a value above the 9999.0 placeholder, or unknown.
SortPercents == Opt({12000, 33000, 50000, 100000000})

\* The call records and the rows main builds from them, for the given percents.
CallsFor(ps) ==
    [n \in 1..Len(ps) |->
        [h |-> ItemHash(n), before |-> None, resp |-> None, events |-> <<>>,
         pct |-> ps[n], url |-> IF ps[n] = None THEN None ELSE Some(Url(ItemHash(n)))]]
RowsFor(ps) ==
    [n \in 1..Len(ps) |->
        [itemHash |-> ItemHash(n), name |-> <<"Hash ", ItemHash(n)>>,
         community_rarity_percent |-> ps[n],
         lightgg_url |-> IF ps[n] = None THEN None ELSE Some(Url(ItemHash(n)))]]

InitSort ==
    /\ pc = "report"
    /\ failure = ""
    /\ listener = "none"
    /\ shutdown_request = FALSE
    /\ cur = None
    /\ q = <<>>
    /\ code = None
    /\ puts = <<>>
    /\ nHandled = 0
    /\ nCallback = 0
    /\ lastResp = None
    /\ trace = <<>>
    /\ cache = EmptyCache
    /\ tokens = None
    /\ mems = None
    /\ primary = None
    /\ profile = None
    /\ mf = None
    /\ collectible_def = None
    /\ item_def = None
    /\ owned_emblems = {}
    /\ todo = {}
    /\ \E len \in 0..MaxRows : \E ps \in [1..len -> SortPercents] :
           /\ rows = RowsFor(ps)
           /\ calls = CallsFor(ps)
    /\ report = <<>>
    /\ csv = None

NextSort == Report

SpecSort == InitSort /\ [][NextSort]_vars

\* Position of the row of item hash h in the order the rows were built.
BuiltAt(h) == CHOOSE n \in 1..Len(calls) : calls[n].h = h
Pct(r) == r.community_rarity_percent

\* C15: after the sort every row with a known percent precedes every row with
\* an unknown percent, known rows are in non-decreasing percent order whatever
\* their values, the rows are a permutation of the rows built, rows with equal
\* percent (all unknown rows in particular) keep the order they were built in,
\* and an unknown percent is printed as "Unknown" and exported as empty, never
\* as the placeholder.
C15_Ranking ==
    (pc = "done" /\ csv # None) =>
        /\ Len(rows) = Len(calls)
        /\ \A n \in 1..Len(calls) :
               \E m \in 1..Len(rows) :
                   /\ rows[m].itemHash = calls[n].h
                   /\ Pct(rows[m]) = calls[n].pct
                   /\ \A m2 \in 1..Len(rows) : rows[m2].itemHash = calls[n].h => m2 = m
        /\ \A a \in 1..Len(rows) : \A b \in (a+1)..Len(rows) :
               /\ Pct(rows[a]) = None => Pct(rows[b]) = None
               /\ (Pct(rows[a]) # None /\ Pct(rows[b]) # None) =>
                      Val(Pct(rows[a])) <= Val(Pct(rows[b]))
               /\ Pct(rows[a]) = Pct(rows[b]) =>
                      BuiltAt(rows[a].itemHash) < BuiltAt(rows[b].itemHash)
        /\ \A m \in 1..Len(rows) :
               /\ Val(csv)[m].itemHash = rows[m].itemHash
               /\ Val(csv)[m].community_rarity_percent = Pct(rows[m])
               /\ m <= Len(report) =>
                      report[m].pct_s =
                          (IF Pct(rows[m]) = None
                           THEN [text |-> "Unknown", whole |-> 0, frac |-> 0]
                           ELSE [text |-> "%", whole |-> Val(Pct(rows[m])) \div 10000,
                                 frac |-> Val(Pct(rows[m])) % 10000])

\* The percents 5.0, unknown, 1.2, unknown, 3.3 came out as 1.2, 3.3, 5.0,
\* unknown, unknown with the two unknown rows in their original order.
C15_Witness ==
    /\ pc = "done"
    /\ Len(calls) = 5
    /\ [n \in 1..5 |-> calls[n].pct] = <<Some(50000), None, Some(12000), None, Some(33000)>>
    /\ [n \in 1..5 |-> rows[n].itemHash] =
           <<ItemHash(3), ItemHash(5), ItemHash(1), ItemHash(2), ItemHash(4)>>

(***************************************************************************)
(* Sixth specification: pick_primary_membership applied to membership      *)
(* answers drawn from a bounded set, together with the full run.           *)
(***************************************************************************)
MaxMemberships == 2

\* A membership with the id of M1 on another platform.
M1b == [membershipId |-> "1", membershipType |-> 2]

PickBodies ==
    { [destinyMemberships |-> dms, primaryMembershipId |-> ov] :
        dms \in UNION { [1..len -> {M1, M2, M1b}] : len \in 0..MaxMemberships },
        ov \in Opt({"1", "2", "9"}) }

NoMembership == "No Destiny memberships found on this account."

Pick ==
    /\ pc = "pick"
    /\ IF pick_primary_membership(Val(mems)) = None
       THEN Abort(NoMembership) /\ UNCHANGED primary
       ELSE /\ primary' = pick_primary_membership(Val(mems))
            /\ pc' = "picked"
            /\ UNCHANGED failure
    /\ UNCHANGED <<oauthVars, trace, cache, tokens, mems, profile, mf, collectible_def,
                   item_def, owned_emblems, todo, rows, calls, report, csv>>

InitPick ==
    /\ pc = "pick"
    /\ failure = ""
    /\ listener = "none"
    /\ shutdown_request = FALSE
    /\ cur = None
    /\ q = <<>>
    /\ code = None
    /\ puts = <<>>
    /\ nHandled = 0
    /\ nCallback = 0
    /\ lastResp = None
    /\ trace = <<>>
    /\ cache = EmptyCache
    /\ tokens = None
    /\ mems \in { Some(b) : b \in PickBodies }
    /\ primary = None
    /\ profile = None
    /\ mf = None
    /\ collectible_def = None
    /\ item_def = None
    /\ owned_emblems = {}
    /\ todo = {}
    /\ rows = <<>>
    /\ calls = <<>>
    /\ report = <<>>
    /\ csv = None

NextPick == Pick

SpecRunAndPick == (Init \/ InitPick) /\ [][Next \/ NextPick]_vars

\* Positions of the listed memberships whose id is the override id.
OverrideMatches(resp) ==
    { n \in 1..Len(resp.destinyMemberships) :
        /\ resp.primaryMembershipId # None
        /\ resp.destinyMemberships[n].membershipId = Val(resp.primaryMembershipId) }
FirstOf(S) == CHOOSE n \in S : \A n2 \in S : n <= n2

AfterMemberships(e) == e.target \in {"profile", "manifest", "table", "lightgg"}

\* C16: for a non-empty membership list the membership chosen is the first one
\* whose id equals the override id when there is an override that matches one,
\* and the first of the list otherwise; for an empty list the run aborts with
\* the no-membership message, and no profile, manifest, table or rarity request
\* is ever sent and nothing is cached.
C16_MembershipChoice ==
    (mems # None /\ pc # "pick") =>
        LET resp == Val(mems)
            dms == resp.destinyMemberships
        IN  IF dms = <<>>
            THEN /\ pc = "aborted"
                 /\ failure = NoMembership
                 /\ primary = None
                 /\ SelectSeq(trace, AfterMemberships) = <<>>
                 /\ SelectSeq(trace, IsCachePut) = <<>>
                 /\ calls = <<>> /\ csv = None
            ELSE /\ failure # NoMembership
                 /\ primary = Some(IF OverrideMatches(resp) # {}
                                   THEN dms[FirstOf(OverrideMatches(resp))]
                                   ELSE dms[1])

\* Two listed memberships share the override id and the second of the list,
\* which is the first of them, was chosen.
C16_Witness ==
    /\ pc = "picked"
    /\ Val(mems).destinyMemberships = <<M2, M1b>>
    /\ Val(mems).primaryMembershipId = Some("1")
    /\ primary = Some(M1b)

\* C17: a run sends at most one request to the token endpoint, with the
\* authorization_code grant and the first code received, however many codes
\* the callbacks put on the queue; no refresh_token grant is ever sent; a run
\* that is past the exchange has sent exactly one.
C17_OneAuthorization ==
    /\ Len(TokenPosts) <= 1
    /\ \A n \in 1..Len(trace) :
           trace[n].target = "token" =>
               /\ trace[n].op = "POST"
               /\ trace[n].arg[1] = "authorization_code"
               /\ trace[n].arg[1] # "refresh_token"
               /\ trace[n].arg[2] = puts[1]
    /\ PastToken => Len(TokenPosts) = 1

\* A run that received two codes has finished with its report.
C17_Witness ==
    /\ pc = "done"
    /\ csv # None
    /\ Len(puts) >= 2
    /\ Len(TokenPosts) = 1

(***************************************************************************)
(* get_manifest called repeatedly over one cache directory                 *)
(***************************************************************************)
MaxManifestCalls == 2

\* get_manifest(): the index, then the two tables in order; the first call
\* that raises ends it. resp is what the index request would answer, coll_ok
\* and item_ok whether the two table requests would succeed.
get_manifest(c, resp, coll_ok, item_ok) ==
    LET ix == manifest_index(c, resp)
        paths == Val(ix.mf)
        co == fetch(ix.cache, KeyColl, paths.DestinyCollectibleDefinition, coll_ok)
        it == fetch(co.cache, KeyItem, paths.DestinyInventoryItemDefinition, item_ok)
    IN  IF ix.mf = None
        THEN [tables |-> None, cache |-> ix.cache, events |-> ix.events, raised |-> ix.raised]
        ELSE IF co.table = None
        THEN [tables |-> None, cache |-> co.cache, events |-> ix.events \o co.events,
              raised |-> co.raised]
        ELSE IF it.table = None
        THEN [tables |-> None, cache |-> it.cache,
              events |-> ix.events \o co.events \o it.events, raised |-> it.raised]
        ELSE [tables |-> Some(<<Val(co.table), Val(it.table)>>), cache |-> it.cache,
              events |-> ix.events \o co.events \o it.events, raised |-> ""]

\* One run's get_manifest call; calls records what the call found and did.
CallGetManifest(resp, coll_ok, item_ok) ==
    /\ pc = "manifest_calls"
    /\ Len(calls) < MaxManifestCalls
    /\ LET r == get_manifest(cache, resp, coll_ok, item_ok)
       IN  /\ cache' = r.cache
           /\ trace' = trace \o r.events
           /\ failure' = r.raised
           /\ IF r.tables = None THEN UNCHANGED <<collectible_def, item_def>>
              ELSE /\ collectible_def' = Some(Val(r.tables)[1])
                   /\ item_def' = Some(Val(r.tables)[2])
           /\ calls' = Append(calls, [before |-> cache, after |-> r.cache, resp |-> resp,
                                      events |-> r.events, tables |-> r.tables,
                                      raised |-> r.raised])
    /\ UNCHANGED <<pc, oauthVars, tokens, mems, primary, profile, mf, owned_emblems, todo,
                   rows, report, csv>>

\* Cache directories the first call can find: those of InitCaches, and one
\* whose index file was removed while the two table files stayed.
ManifestCaches ==
    InitCaches \cup { [EmptyCache EXCEPT ![KeyColl] = Some(Dumps(CollV1)),
                                          ![KeyItem] = Some(Dumps(ItemV1))] }

InitManifest ==
    /\ pc = "manifest_calls"
    /\ failure = ""
    /\ listener = "none"
    /\ shutdown_request = FALSE
    /\ cur = None
    /\ q = <<>>
    /\ code = None
    /\ puts = <<>>
    /\ nHandled = 0
    /\ nCallback = 0
    /\ lastResp = None
    /\ trace = <<>>
    /\ cache \in ManifestCaches
    /\ tokens = None
    /\ mems = None
    /\ primary = None
    /\ profile = None
    /\ mf = None
    /\ collectible_def = None
    /\ item_def = None
    /\ owned_emblems = {}
    /\ todo = {}
    /\ rows = <<>>
    /\ calls = <<>>
    /\ report = <<>>
    /\ csv = None

NextManifest ==
    \E resp \in Opt(Indexes), coll_ok \in BOOLEAN, item_ok \in BOOLEAN :
        CallGetManifest(resp, coll_ok, item_ok)

SpecManifest == InitManifest /\ [][NextManifest]_vars

(***************************************************************************)
(* C18: manifest documents are cached by fixed name                        *)
(***************************************************************************)
ManifestKeys == {KeyIndex, KeyColl, KeyItem}

\* The remote paths an index can name for the document cached under k.
PathsOf(k) ==
    IF k = KeyColl THEN { ix.DestinyCollectibleDefinition : ix \in Indexes }
    ELSE IF k = KeyItem THEN { ix.DestinyInventoryItemDefinition : ix \in Indexes }
    ELSE {}

\* Event e is a network request for the document cached under k.
RequestFor(e, k) ==
    /\ e.op = "GET"
    /\ IF k = KeyIndex THEN e.target = "manifest"
       ELSE e.target = "table" /\ e.arg[1] \in PathsOf(k)

Requested(c, k) == \E i \in 1..Len(c.events) : RequestFor(c.events[i], k)

\* What an answered request for k brought back in call c.
BodyOf(c, e, k) == IF k = KeyIndex THEN Dumps(Val(c.resp)) ELSE RemoteText(e.arg[1])

StoresWhatItFetched(c) ==
    \A k \in ManifestKeys : \A i \in 1..Len(c.events) :
        RequestFor(c.events[i], k) /\ c.events[i].res = "ok"
            => c.after[k] = Some(BodyOf(c, c.events[i], k))

TablesOf(c) == <<Loads(Val(c.before[KeyColl])), Loads(Val(c.before[KeyItem]))>>

\* C18 as stated: a document is requested only when its entry is absent, what
\* was fetched is stored under its name, and once the three entries exist a
\* call sends nothing and returns the cached tables.
C18_FetchOnlyWhenAbsent ==
    pc = "manifest_calls" =>
        \A n \in 1..Len(calls) :
            LET c == calls[n]
            IN  /\ \A k \in ManifestKeys : Requested(c, k) => c.before[k] = None
                /\ StoresWhatItFetched(c)
                /\ (\A k \in ManifestKeys : c.before[k] # None)
                       => c.events = <<>> /\ c.tables = Some(TablesOf(c))

\* C18, amended: get_manifest requests the index or a table only when that
\* document's fixed-name cache entry is absent or empty, keeps every non-empty
\* entry as it is, and stores what it fetched under that name; once the three
\* entries are non-empty a call sends no request and returns the cached
\* tables, and a cached table is returned whatever path the index names.
C18_FetchOnlyWhenAbsentOrEmpty ==
    pc = "manifest_calls" =>
        \A n \in 1..Len(calls) :
            LET c == calls[n]
            IN  /\ \A k \in ManifestKeys :
                       /\ Requested(c, k) => ~Truthy(c.before[k])
                       /\ Truthy(c.before[k]) => c.after[k] = c.before[k]
                /\ StoresWhatItFetched(c)
                /\ (\A k \in ManifestKeys : Truthy(c.before[k]))
                       => c.events = <<>> /\ c.tables = Some(TablesOf(c))
                /\ c.tables # None /\ Truthy(c.before[KeyColl])
                       => Val(c.tables)[1] = Loads(Val(c.before[KeyColl]))

\* A call that fetched an index naming another path than the one the cached
\* collectible table came from and returned the cached table without a
\* request for it, followed by a call that sent nothing at all.
C18_Witness ==
    /\ pc = "manifest_calls"
    /\ Len(calls) = 2
    /\ calls[1].resp = Some(IndexV2)
    /\ Requested(calls[1], KeyIndex)
    /\ ~Requested(calls[1], KeyColl)
    /\ calls[1].tables = Some(<<CollV1, ItemV1>>)
    /\ calls[2].resp = Some(IndexV3)
    /\ calls[2].events = <<>>
    /\ calls[2].tables = Some(<<CollV1, ItemV1>>)

(***************************************************************************)
(* fetch_lightgg_rarity on every short page                                *)
(***************************************************************************)
MaxPageLen == 5

\* The chunks pages are made of: both spellings of the label and of the
\* percent sign, markup, and the numbers 0 and 1.2.
Chunks == {Tk("label"), Tk("label_markup"), Tk("tag"), Tk("pct"), Tk("pct_entity"),
           Num(0), Num(12000)}
Pages == UNION { [1..n -> Chunks] : n \in 0..MaxPageLen }

\* One call for an item without a cache entry; resp is the page, or None when
\* the request raised.
CallOnPage(resp) ==
    /\ pc = "page"
    /\ calls = <<>>
    /\ LET r == fetch_lightgg_rarity(cache, H1, resp)
       IN  /\ cache' = r.cache
           /\ trace' = trace \o r.events
           /\ calls' = <<CallRecord(cache, H1, resp, r)>>
    /\ UNCHANGED <<pc, failure, oauthVars, tokens, mems, primary, profile, mf, collectible_def,
                   item_def, owned_emblems, todo, rows, report, csv>>

InitExtract ==
    /\ pc = "page"
    /\ failure = ""
    /\ listener = "none"
    /\ shutdown_request = FALSE
    /\ cur = None
    /\ q = <<>>
    /\ code = None
    /\ puts = <<>>
    /\ nHandled = 0
    /\ nCallback = 0
    /\ lastResp = None
    /\ trace = <<>>
    /\ cache = EmptyCache
    /\ tokens = None
    /\ mems = None
    /\ primary = None
    /\ profile = None
    /\ mf = None
    /\ collectible_def = None
    /\ item_def = None
    /\ owned_emblems = {}
    /\ todo = {}
    /\ rows = <<>>
    /\ calls = <<>>
    /\ report = <<>>
    /\ csv = None

\* The page is drawn only while the call is still to be made.
NextExtract == calls = <<>> /\ \E resp \in Opt(Pages) : CallOnPage(resp)

SpecExtract == InitExtract /\ [][NextExtract]_vars

(***************************************************************************)
(* C19: two extraction strategies, tried in order                          *)
(***************************************************************************)
Primary(html) == RARITY_RE_search(RawView(html))
Fallback(html) == RARITY_RE_search(get_text(html))

\* C19: on a fetched page the pattern is searched in the raw HTML first and in
\* the visible text only when the raw HTML gave no match; the call returns the
\* raw match when there is one, otherwise the visible-text match when there is
\* one, and the unknown pair, as an ordinary return, exactly when neither
\* search matches.
C19_FirstSuccess ==
    pc = "page" =>
        \A n \in 1..Len(calls) :
            LET c == calls[n]
                html == Val(c.resp)
            IN  c.resp # None =>
                    /\ c.tried[1] = "html"
                    /\ c.tried = (IF Primary(html) # None THEN <<"html">>
                                  ELSE <<"html", "text">>)
                    /\ Primary(html) # None => c.pct = Primary(html)
                    /\ Primary(html) = None => c.pct = Fallback(html)
                    /\ c.pct = None <=> (Primary(html) = None /\ Fallback(html) = None)
                    /\ c.pct = None => c.url = None /\ failure = ""

\* A page on which both searches match with different values was fetched and
\* the raw HTML's value was returned without a search of the visible text.
C19_Witness ==
    /\ pc = "page"
    /\ Len(calls) = 1
    /\ calls[1].resp # None
    /\ Primary(Val(calls[1].resp)) = Some(12000)
    /\ Fallback(Val(calls[1].resp)) = Some(0)
    /\ calls[1].pct = Some(12000)
    /\ calls[1].tried = <<"html">>

(***************************************************************************)
(* C20: an unknown rarity is never cached                                  *)
(***************************************************************************)
RarityEntries(c) == { h \in ItemHashes : c[RarityKey(h)] # None }

\* The rarity file of h holds a percent that is a number, and the url of h.
HoldsKnown(c, h) ==
    /\ Val(c[RarityKey(h)]) # <<>>
    /\ Loads(Val(c[RarityKey(h)])).percent # None
    /\ Loads(Val(c[RarityKey(h)])).source = Url(h)

RequestsPage(c) == \E i \in 1..Len(c.events) : c.events[i].op = "GET"

\* C20: a call that ends in a failed request or a page without a percentage
\* returns the unknown pair and leaves every cache file as it was; every
\* rarity file holds a number and the item's url; every call returns percent
\* and url both present or both absent; and a call for an item whose earlier
\* calls all ended unknown requests the page again.
C20_UnknownNeverCached ==
    pc = "calls" =>
        /\ \A n \in 1..Len(calls) :
               LET c == calls[n]
               IN  /\ Degraded(c) => c.pct = None /\ c.cache_after = c.cache_before
                   /\ c.pct = None => c.cache_after = c.cache_before
                   /\ c.cache_before = (IF n = 1 THEN calls[n].cache_before
                                        ELSE calls[n-1].cache_after)
                   /\ (c.pct = None) <=> (c.url = None)
                   /\ \A i \in 1..(n-1) :
                          (/\ calls[i].h = c.h
                           /\ \A j \in i..(n-1) : calls[j].h = c.h => calls[j].pct = None)
                              => RequestsPage(c)
        /\ (calls # <<>> => cache = calls[Len(calls)].cache_after)
        /\ \A h \in RarityEntries(cache) : HoldsKnown(cache, h)

\* An item whose request failed and whose next page had no percentage was
\* asked for a third time, with the cache still as the first call found it.
C20_Witness ==
    /\ pc = "calls"
    /\ Len(calls) = 3
    /\ \A n \in 1..3 : calls[n].h = H3
    /\ calls[1].resp = None
    /\ calls[2].resp = Some(PageMiss)
    /\ calls[3].cache_before = calls[1].cache_before
    /\ RequestsPage(calls[3])
    /\ RarityEntries(cache) # {}

====
